---- MODULE Spec2Model ----
(***************************************************************************)
(* Model of src/agent.py: the Streamlit script main(), which is re-run on  *)
(* every interaction of a browser session, the session state it keeps      *)
(* (agent_executor, chat_history), the user-segment expander tool, and the *)
(* bounded reasoning loop of the AgentExecutor it configures.              *)
(*                                                                         *)
(* A text is a sequence of chunks.  A chunk typed by a user or produced by *)
(* the reasoning engine is a one-character string; a literal of the source *)
(* is kept as one chunk.                                                   *)
(***************************************************************************)
EXTENDS Integers, Sequences, FiniteSets, TLC

VARIABLES
    env,             \* os.environ: GROQ_API_KEY and TAVILY_API_KEY
    agent_executor,  \* st.session_state.agent_executor (0: key not in session_state)
    agents_created,  \* number of create_agent() calls made in the session
    has_history,     \* "chat_history" in st.session_state
    chat_history,    \* st.session_state.chat_history, a list of (role, text)
    lists_created,   \* number of list objects bound to chat_history in the session
    idea,            \* local of main(): st.text_area value
    target_users,    \* local of main(): st.text_input value
    market_info,     \* local of main(): st.text_area value
    analyze_btn,     \* local of main(): st.button value
    user_input,      \* local of main(): the request text
    ui,              \* the elements displayed by the current run of main()
    pc,              \* "idle": between runs; "invoking": inside agent_executor.invoke
    invocations,     \* the arguments of every agent_executor.invoke call, in order
    pre_history,     \* chat_history as it was when the current run started
    agent_state,     \* state of the reasoning loop
    iterations,      \* iteration counter of the reasoning loop
    pending,         \* the tool call requested by the reasoning engine
    scratchpad,      \* intermediate steps of the current invocation
    response         \* what invoke returned or raised

vars == <<env, agent_executor, agents_created, has_history, chat_history,
          lists_created, idea, target_users, market_info, analyze_btn,
          user_input, ui, pc, invocations, pre_history, agent_state,
          iterations, pending, scratchpad, response>>

\* ---------------------------------------------------------------- bounds
MaxInvocations == 2
MaxPad == 1

\* ----------------------------------------------------------------- texts
Whitespace == {" ", "\t", "\n"}

RECURSIVE lstrip(_)
lstrip(s) ==
    IF s # <<>> /\ Head(s) \in Whitespace THEN lstrip(Tail(s)) ELSE s

RECURSIVE rstrip(_)
rstrip(s) ==
    IF s # <<>> /\ s[Len(s)] \in Whitespace
    THEN rstrip(SubSeq(s, 1, Len(s) - 1))
    ELSE s

strip(s) == rstrip(lstrip(s))

\* str.split("\n"): the pieces between line breaks, empty pieces included
RECURSIVE split_lines(_, _)
split_lines(s, cur) ==
    IF s = <<>> THEN <<cur>>
    ELSE IF Head(s) = "\n" THEN <<cur>> \o split_lines(Tail(s), <<>>)
    ELSE split_lines(Tail(s), Append(cur, Head(s)))

split(s) == split_lines(s, <<>>)

RECURSIVE SelectNonBlank(_)
SelectNonBlank(ls) ==
    IF ls = <<>> THEN <<>>
    ELSE IF strip(Head(ls)) # <<>> THEN <<Head(ls)>> \o SelectNonBlank(Tail(ls))
    ELSE SelectNonBlank(Tail(ls))

\* the cased characters of the model: <<uppercase, lowercase>>
CasePairs ==
    { <<"S", "s">>, <<"T", "t">>, <<"U", "u">>, <<"D", "d">>, <<"E", "e">>,
      <<"N", "n">>, <<"B", "b">>, <<"I", "i">>, <<"O", "o">>, <<"W", "w">>,
      <<"R", "r">>, <<"V", "v">>, <<"L", "l">>, <<"P", "p">> }

lower_char(c) ==
    IF \E p \in CasePairs : p[1] = c
    THEN (CHOOSE p \in CasePairs : p[1] = c)[2]
    ELSE c

lower_keep(s) == s

lower(s) == [i \in 1..Len(s) |-> lower_char(s[i])]

\* ------------------------------------------------- user-segment expander
students == <<"s", "t", "u", "d", "e", "n", "t", "s">>
business_owners ==
    <<"b", "u", "s", "i", "n", "e", "s", "s", " ", "o", "w", "n", "e", "r", "s">>
developers == <<"d", "e", "v", "e", "l", "o", "p", "e", "r", "s">>

mapping ==
    (students :> <<"College students, High school students, Exam aspirants, Skill learners">>)
    @@ (business_owners :> <<"Small business owners, Entrepreneurs, Startup founders">>)
    @@ (developers :> <<"Software developers, Programmers, Data scientists">>)

fallback(user_group) ==
    <<"Expanded users for '">> \o user_group
        \o <<"' could include a broader audience.">>

expand_target_users(user_group) ==
    LET key == lower(user_group)
    IN  IF key \in DOMAIN mapping THEN mapping[key] ELSE fallback(user_group)

\* ------------------------------------------------------------ environment
Unset == "<unset>"
CredValues == {Unset, "", "key"}
Environments == [GROQ_API_KEY : CredValues, TAVILY_API_KEY : CredValues]

\* load_dotenv(): a variable of the .env file is set unless it is already set
load_dotenv(e, file) ==
    [k \in DOMAIN e |-> IF e[k] = Unset THEN file[k] ELSE e[k]]

\* the .env files that differ for load_dotenv: entries of unset variables
DotenvFiles(e) ==
    { file \in Environments : \A k \in DOMAIN e : e[k] # Unset => file[k] = Unset }

\* truth value of a str-or-None
truthy(v) == v # Unset /\ v # ""

credentials_missing_both(e) ==
    ~truthy(e.GROQ_API_KEY) /\ ~truthy(e.TAVILY_API_KEY)

credentials_missing(e) ==
    ~truthy(e.GROQ_API_KEY) \/ ~truthy(e.TAVILY_API_KEY)

\* ------------------------------------------------------------ user inputs
Ideas == { <<>>, <<" ">>, <<" ", "a">> }
TargetUsers == { <<>>, <<"\t", " ">>, <<"u">> }
MarketInfos == { <<>>, <<"m">> }

fields_missing_unstripped(i, t) == i = <<>> \/ t = <<>>

fields_missing(i, t) == strip(i) = <<>> \/ strip(t) = <<>>

format_user_input(i, t, m) ==
    <<"\nStartup Idea: ">> \o i
        \o <<"\nTarget Users: ">> \o t
        \o <<"\nMarket Info: ">> \o (IF m # <<>> THEN m ELSE <<"None provided">>)
        \o <<"\n">>

\* ------------------------------------------------------------- UI elements
Element(kind, text) == [kind |-> kind, text |-> text]

ConfigErrorElement ==
    Element("error", <<"GROQ_API_KEY or TAVILY_API_KEY missing in .env">>)
FormElements ==
    << Element("title", <<"Startup Idea Validator">>),
       Element("form", <<"idea, target users, market info, analyze">>) >>
WarningElement ==
    Element("warning", <<"Please fill in both idea and target users fields.">>)
SpinnerElement == Element("spinner", <<"Evaluating your startup idea...">>)
SubheaderElement == Element("subheader", <<"Startup Evaluation Result">>)
AgentErrorElement == Element("error", <<"Error running agent">>)

Shows(kind) == \E n \in 1..Len(ui) : ui[n].kind = kind

\* the render calls of a result: the subheader, then a block per non-blank line
render_calls(output_text) ==
    LET lines == SelectNonBlank(split(output_text))
    IN  <<SubheaderElement>>
            \o [n \in 1..Len(lines) |-> Element("markdown", lines[n])]

\* ------------------------------------------------------- reasoning loop
max_iterations_plus_one == 3 + 1

max_iterations == 3

handle_parsing_errors == TRUE

NoCall == [tool |-> "none", arg |-> <<>>]
NoResponse == [kind |-> "none", output |-> <<>>]
Raised == [kind |-> "raise", output |-> <<>>]
Output(text) == [kind |-> "output", output |-> text]

\* ------------------------------------------------------------------ Init
Init ==
    /\ env \in Environments
    /\ agent_executor = 0
    /\ agents_created = 0
    /\ has_history = FALSE
    /\ chat_history = <<>>
    /\ lists_created = 0
    /\ idea = <<>>
    /\ target_users = <<>>
    /\ market_info = <<>>
    /\ analyze_btn = FALSE
    /\ user_input = <<>>
    /\ ui = <<>>
    /\ pc = "idle"
    /\ invocations = <<>>
    /\ pre_history = <<>>
    /\ agent_state = "none"
    /\ iterations = 0
    /\ pending = NoCall
    /\ scratchpad = <<>>
    /\ response = NoResponse

loop_vars == <<agent_state, iterations, pending, scratchpad, response>>

\* ------------------------------------------------ main(): session state
\* "if key not in st.session_state" dropped: a new agent and list every run
init_session_state_every_run ==
    /\ agents_created' = agents_created + 1
    /\ agent_executor' = agents_created + 1
    /\ lists_created' = lists_created + 1
    /\ has_history' = TRUE

init_session_state ==
    /\ agents_created' =
         IF agent_executor = 0 THEN agents_created + 1 ELSE agents_created
    /\ agent_executor' =
         IF agent_executor = 0 THEN agents_created + 1 ELSE agent_executor
    /\ lists_created' =
         IF has_history THEN lists_created ELSE lists_created + 1
    /\ has_history' = TRUE

\* the list the session state holds once lines 120-121 have run
session_history ==
    IF lists_created' # lists_created THEN <<>> ELSE chat_history

\* --------------------------------------------------- main(): one run each
\* lines 13-20: a credential is missing, st.error and st.stop
RunConfigError(file) ==
    /\ pc = "idle"
    /\ env' = load_dotenv(env, file)
    /\ credentials_missing(env')
    /\ ui' = <<ConfigErrorElement>>
    /\ idea' = <<>> /\ target_users' = <<>> /\ market_info' = <<>>
    /\ analyze_btn' = FALSE
    /\ user_input' = <<>>
    /\ pre_history' = chat_history
    /\ pc' = "idle"
    /\ UNCHANGED <<agent_executor, agents_created, has_history, chat_history,
                   lists_created, invocations>>
    /\ UNCHANGED loop_vars

\* lines 13-124: the page is rendered, the button was not activated
RunNoClick(file, i, t, m) ==
    /\ pc = "idle"
    /\ env' = load_dotenv(env, file)
    /\ ~credentials_missing(env')
    /\ idea' = i /\ target_users' = t /\ market_info' = m
    /\ analyze_btn' = FALSE
    /\ init_session_state
    /\ chat_history' = session_history
    /\ pre_history' = chat_history
    /\ ui' = FormElements
    /\ user_input' = <<>>
    /\ pc' = "idle"
    /\ UNCHANGED invocations
    /\ UNCHANGED loop_vars

\* lines 13-126: 'Analyze' activated with a required field missing
RunWarning(file, i, t, m) ==
    /\ pc = "idle"
    /\ env' = load_dotenv(env, file)
    /\ ~credentials_missing(env')
    /\ idea' = i /\ target_users' = t /\ market_info' = m
    /\ analyze_btn' = TRUE
    /\ init_session_state
    /\ chat_history' = session_history
    /\ pre_history' = chat_history
    /\ fields_missing(i, t)
    /\ ui' = FormElements \o <<WarningElement>>
    /\ user_input' = <<>>
    /\ pc' = "idle"
    /\ UNCHANGED invocations
    /\ UNCHANGED loop_vars

\* the chat_history argument of invoke when a fresh list is passed instead
invoke_history_fresh == <<>>

\* the chat_history argument of invoke: the session's list
invoke_history == chat_history'

\* lines 13-139: 'Analyze' activated with both fields given; invoke is entered
RunAnalyze(file, i, t, m) ==
    /\ pc = "idle"
    /\ Len(invocations) < MaxInvocations
    /\ env' = load_dotenv(env, file)
    /\ ~credentials_missing(env')
    /\ idea' = i /\ target_users' = t /\ market_info' = m
    /\ analyze_btn' = TRUE
    /\ init_session_state
    /\ chat_history' = session_history
    /\ pre_history' = chat_history
    /\ ~fields_missing(i, t)
    /\ ui' = FormElements \o <<SpinnerElement>>
    /\ user_input' = format_user_input(i, t, m)
    /\ invocations' = Append(invocations,
                             [executor |-> agent_executor',
                              input |-> user_input',
                              chat_history |-> invoke_history])
    /\ pc' = "invoking"
    /\ agent_state' = "awaiting-decision"
    /\ iterations' = 0
    /\ pending' = NoCall
    /\ scratchpad' = <<>>
    /\ response' = NoResponse

\* ------------------------------------------- reasoning loop (section 4.3)
FinalTexts == { <<"o", "\n", " ", "\n", "k">> }
PartialTexts == { <<"p">> }
EngineLabels == { <<"S", "t", "u", "d", "e", "n", "t", "s">>, <<"x">> }
SearchQueries == { <<"q">> }
SearchResults == { <<"r">> }
ToolErrorText == <<"tool error">>
ParseErrorText == <<"Invalid or incomplete response">>

Step(tool, arg, observation) ==
    [tool |-> tool, arg |-> arg, observation |-> observation]

should_continue == iterations < max_iterations

\* awaiting-decision -> final-answer-produced
EngineFinalAnswer(text) ==
    /\ pc = "invoking" /\ agent_state = "awaiting-decision"
    /\ should_continue
    /\ agent_state' = "final-answer-produced"
    /\ response' = Output(text)
    /\ UNCHANGED <<iterations, pending, scratchpad>>

\* awaiting-decision -> tool-call-pending
EngineRequestsTool(tool, arg) ==
    /\ pc = "invoking" /\ agent_state = "awaiting-decision"
    /\ should_continue
    /\ agent_state' = "tool-call-pending"
    /\ pending' = [tool |-> tool, arg |-> arg]
    /\ UNCHANGED <<iterations, scratchpad, response>>

\* tool-call-pending -> tool-result-received: the expander runs
ExpanderReturns ==
    /\ pc = "invoking" /\ agent_state = "tool-call-pending"
    /\ pending.tool = "expand_target_users"
    /\ scratchpad' = Append(scratchpad,
                            Step(pending.tool, pending.arg,
                                 expand_target_users(pending.arg)))
    /\ agent_state' = "tool-result-received"
    /\ pending' = NoCall
    /\ UNCHANGED <<iterations, response>>

\* tool-call-pending -> tool-result-received: the search returns results
SearchReturns(results) ==
    /\ pc = "invoking" /\ agent_state = "tool-call-pending"
    /\ pending.tool = "tavily_search_results_json"
    /\ scratchpad' = Append(scratchpad, Step(pending.tool, pending.arg, results))
    /\ agent_state' = "tool-result-received"
    /\ pending' = NoCall
    /\ UNCHANGED <<iterations, response>>

\* the search fails and the loop records the failure as the tool's result
SearchFailureSurfaced ==
    /\ pc = "invoking" /\ agent_state = "tool-call-pending"
    /\ pending.tool = "tavily_search_results_json"
    /\ scratchpad' = Append(scratchpad,
                            Step(pending.tool, pending.arg, ToolErrorText))
    /\ agent_state' = "tool-result-received"
    /\ pending' = NoCall
    /\ UNCHANGED <<iterations, response>>

\* the search fails and the exception leaves invoke
SearchFailureRaised ==
    /\ pc = "invoking" /\ agent_state = "tool-call-pending"
    /\ pending.tool = "tavily_search_results_json"
    /\ agent_state' = "raised"
    /\ response' = Raised
    /\ pending' = NoCall
    /\ UNCHANGED <<iterations, scratchpad>>

\* tool-result-received -> awaiting-decision, one iteration used
ToolResultReceived ==
    /\ pc = "invoking" /\ agent_state = "tool-result-received"
    /\ iterations' = iterations + 1
    /\ agent_state' = "awaiting-decision"
    /\ UNCHANGED <<pending, scratchpad, response>>

\* awaiting-decision: the engine's output is neither an answer nor a tool call
EngineUnparseable ==
    /\ pc = "invoking" /\ agent_state = "awaiting-decision"
    /\ should_continue
    /\ IF handle_parsing_errors
       THEN /\ agent_state' = "parse-error-recovered"
            /\ scratchpad' = Append(scratchpad,
                                    Step("_Exception", <<>>, ParseErrorText))
            /\ UNCHANGED response
       ELSE /\ agent_state' = "raised"
            /\ response' = Raised
            /\ UNCHANGED scratchpad
    /\ UNCHANGED <<iterations, pending>>

\* parse-error-recovered -> awaiting-decision, one iteration used
ParseErrorRecovered ==
    /\ pc = "invoking" /\ agent_state = "parse-error-recovered"
    /\ iterations' = iterations + 1
    /\ agent_state' = "awaiting-decision"
    /\ UNCHANGED <<pending, scratchpad, response>>

\* awaiting-decision: the call to the model provider raises
EngineRaises ==
    /\ pc = "invoking" /\ agent_state = "awaiting-decision"
    /\ should_continue
    /\ agent_state' = "raised"
    /\ response' = Raised
    /\ UNCHANGED <<iterations, pending, scratchpad>>

\* awaiting-decision -> iteration-limit-reached
IterationLimitReached(text) ==
    /\ pc = "invoking" /\ agent_state = "awaiting-decision"
    /\ ~should_continue
    /\ agent_state' = "iteration-limit-reached"
    /\ response' = Output(text)
    /\ UNCHANGED <<iterations, pending, scratchpad>>

main_vars == <<env, agent_executor, agents_created, has_history, chat_history,
               lists_created, idea, target_users, market_info, analyze_btn,
               user_input, ui, pc, invocations, pre_history>>

LoopStep ==
    /\ \/ \E text \in FinalTexts : EngineFinalAnswer(text)
       \/ \E arg \in EngineLabels : EngineRequestsTool("expand_target_users", arg)
       \/ \E arg \in SearchQueries :
              EngineRequestsTool("tavily_search_results_json", arg)
       \/ ExpanderReturns
       \/ \E results \in SearchResults : SearchReturns(results)
       \/ SearchFailureSurfaced
       \/ SearchFailureRaised
       \/ ToolResultReceived
       \/ EngineUnparseable
       \/ ParseErrorRecovered
       \/ EngineRaises
       \/ \E text \in PartialTexts : IterationLimitReached(text)
    /\ UNCHANGED main_vars

\* --------------------------------------- main(): after invoke, lines 141-152
ResetLoop ==
    /\ agent_state' = "none"
    /\ iterations' = 0
    /\ pending' = NoCall
    /\ scratchpad' = <<>>
    /\ response' = NoResponse

\* response.get("output", str(response)) of the dict invoke returns
output_text == response.output

\* the two appends in the reverse order
append_turn_reversed(h) ==
    h \o << <<"assistant", output_text>>, <<"human", user_input>> >>

\* lines 143-144
append_turn(h) ==
    h \o << <<"human", user_input>>, <<"assistant", output_text>> >>

\* the human entry is recorded although the invocation failed
history_after_failure_keeps_request(h) == Append(h, <<"human", user_input>>)

\* lines 151-152: nothing of the try body before invoke returned has run
history_after_failure(h) == h

\* invoke returned and every line of the try body ran
FinishSuccess ==
    /\ pc = "invoking" /\ response.kind = "output"
    /\ chat_history' = append_turn(chat_history)
    /\ ui' = ui \o render_calls(output_text)
    /\ pc' = "idle"
    /\ ResetLoop
    /\ UNCHANGED <<env, agent_executor, agents_created, has_history,
                   lists_created, idea, target_users, market_info, analyze_btn,
                   user_input, invocations, pre_history>>

\* invoke returned, the turn was appended, then render call number k + 1 raised
FinishRenderError(k) ==
    /\ pc = "invoking" /\ response.kind = "output"
    /\ k < Len(render_calls(output_text))
    /\ chat_history' = append_turn(chat_history)
    /\ ui' = ui \o SubSeq(render_calls(output_text), 1, k) \o <<AgentErrorElement>>
    /\ pc' = "idle"
    /\ ResetLoop
    /\ UNCHANGED <<env, agent_executor, agents_created, has_history,
                   lists_created, idea, target_users, market_info, analyze_btn,
                   user_input, invocations, pre_history>>

\* no except clause: the exception ends the script run and the session
FinishInvokeErrorUncaught ==
    /\ pc = "invoking" /\ response.kind = "raise"
    /\ pc' = "crashed"
    /\ UNCHANGED <<chat_history, ui>>
    /\ UNCHANGED loop_vars
    /\ UNCHANGED <<env, agent_executor, agents_created, has_history,
                   lists_created, idea, target_users, market_info, analyze_btn,
                   user_input, invocations, pre_history>>

\* invoke raised: the except clause displays the error
FinishInvokeError ==
    /\ pc = "invoking" /\ response.kind = "raise"
    /\ chat_history' = history_after_failure(chat_history)
    /\ ui' = ui \o <<AgentErrorElement>>
    /\ pc' = "idle"
    /\ ResetLoop
    /\ UNCHANGED <<env, agent_executor, agents_created, has_history,
                   lists_created, idea, target_users, market_info, analyze_btn,
                   user_input, invocations, pre_history>>

\* ---------------------------------------------------------- specification
Next ==
    \/ \E file \in DotenvFiles(env) : RunConfigError(file)
    \/ \E file \in DotenvFiles(env), i \in Ideas, t \in TargetUsers, m \in MarketInfos :
           RunNoClick(file, i, t, m)
    \/ \E file \in DotenvFiles(env), i \in Ideas, t \in TargetUsers, m \in MarketInfos :
           RunWarning(file, i, t, m)
    \/ \E file \in DotenvFiles(env), i \in Ideas, t \in TargetUsers, m \in MarketInfos :
           RunAnalyze(file, i, t, m)
    \/ LoopStep
    \/ FinishSuccess
    \/ \E k \in 0..(Len(render_calls(output_text)) - 1) : FinishRenderError(k)
    \/ FinishInvokeError

Spec == Init /\ [][Next]_vars

\* the script thread runs on until invoke and the run of main() have ended
Finish ==
    \/ FinishSuccess
    \/ \E k \in 0..(Len(render_calls(output_text)) - 1) : FinishRenderError(k)
    \/ FinishInvokeError

SpecFair == Spec /\ WF_vars(LoopStep) /\ WF_vars(Finish)

\* ------------------------------------- the expander applied to many labels
upper_char(c) ==
    IF \E p \in CasePairs : p[2] = c
    THEN (CHOOSE p \in CasePairs : p[2] = c)[1]
    ELSE c

RECURSIVE CaseVariants(_)
CaseVariants(w) ==
    IF w = <<>> THEN { <<>> }
    ELSE { <<c>> \o r : c \in {Head(w), upper_char(Head(w))},
                        r \in CaseVariants(Tail(w)) }

RECURSIVE Pads(_)
Pads(n) ==
    IF n = 0 THEN {}
    ELSE { <<" ">>, <<"\t">> }
            \cup { <<c>> \o p : c \in {" ", "\t"}, p \in Pads(n - 1) }

Keys == {students, business_owners, developers}

Labels ==
    UNION { CaseVariants(k) : k \in Keys }
      \cup { p \o k : p \in Pads(MaxPad), k \in Keys }
      \cup { k \o p : p \in Pads(MaxPad), k \in Keys }
      \cup { <<>>, <<"x">>, <<"S">>,
             <<"s", "t", "u", "d", "e", "n", "t">>,
             <<"s", "t", "u", "d", "e", "n", "t", "s", "s">>,
             <<"S", "t", "u", "d", "e", "n", "t", "s", "!">>,
             <<"t", "e", "a", "c", "h", "e", "r", "s">> }

\* an invocation in which the reasoning engine has just requested the expander
InitExpander ==
    /\ env = [GROQ_API_KEY |-> "key", TAVILY_API_KEY |-> "key"]
    /\ agent_executor = 1
    /\ agents_created = 1
    /\ has_history = TRUE
    /\ chat_history = <<>>
    /\ lists_created = 1
    /\ idea = <<" ", "a">>
    /\ target_users = <<"u">>
    /\ market_info = <<>>
    /\ analyze_btn = TRUE
    /\ user_input = format_user_input(idea, target_users, market_info)
    /\ ui = FormElements \o <<SpinnerElement>>
    /\ pc = "invoking"
    /\ invocations = << [executor |-> 1, input |-> user_input,
                         chat_history |-> <<>>] >>
    /\ pre_history = <<>>
    /\ agent_state = "tool-call-pending"
    /\ iterations = 0
    /\ \E label \in Labels :
           pending = [tool |-> "expand_target_users", arg |-> label]
    /\ scratchpad = <<>>
    /\ response = NoResponse

ExpanderStep == ExpanderReturns /\ UNCHANGED main_vars

SpecExpander == InitExpander /\ [][ExpanderStep]_vars

\* ================================================================ claims
Last(q) == q[Len(q)]

IsBlank(txt) == \A n \in 1..Len(txt) : txt[n] \in Whitespace

IsPrefix(p, q) == Len(p) <= Len(q) /\ SubSeq(q, 1, Len(p)) = p

CredentialAbsentOrEmpty(v) == v \in {Unset, ""}

\* a step that is an 'Analyze' activation with both required fields given
ValidActivation ==
    /\ pc = "idle"
    /\ analyze_btn'
    /\ ~IsBlank(idea') /\ ~IsBlank(target_users')
    /\ ui' # <<ConfigErrorElement>>

\* a step that ends an activation whose agent invocation failed
InvocationFailedStep ==
    pc = "invoking" /\ response.kind = "raise" /\ pc' # "invoking"

\* a step that ends an activation whose agent invocation succeeded
InvocationSucceededStep ==
    pc = "invoking" /\ response.kind = "output" /\ pc' # "invoking"

ErrorDisplayed == ui # <<>> /\ Last(ui) = AgentErrorElement

\* C1: when the agent invocation of an activation fails, the history after
\* the activation equals the history before it, the error message is
\* displayed, and the session stays usable: a later activation with valid
\* fields invokes the agent again.
C1_FailedInvocationLeavesHistory ==
    [][ /\ InvocationFailedStep =>
             /\ pc' = "idle"
             /\ chat_history' = pre_history
             /\ chat_history' = chat_history
             /\ ui' = ui \o <<AgentErrorElement>>
        /\ (ErrorDisplayed /\ ValidActivation) =>
             /\ pc' = "invoking"
             /\ Len(invocations') = Len(invocations) + 1
      ]_vars

\* an invocation is running after an earlier one failed and left no entry
C1_Witness ==
    /\ pc = "invoking"
    /\ Len(invocations) = 2
    /\ chat_history = <<>>

\* C2: an activation with idea or target_users empty or whitespace-only
\* invokes the agent zero times, shows the warning and leaves the history
\* unchanged, whatever market_info and the history hold.
C2_MissingFieldNoInvocation ==
    [][ ( /\ pc = "idle"
          /\ analyze_btn'
          /\ IsBlank(idea') \/ IsBlank(target_users') )
        => /\ invocations' = invocations
           /\ chat_history' = chat_history
           /\ pc' = "idle"
           /\ \E n \in 1..Len(ui') : ui'[n] = WarningElement
      ]_vars

\* the warning is shown with a market_info given and a history of one turn
C2_Witness ==
    /\ pc = "idle"
    /\ analyze_btn
    /\ Shows("warning")
    /\ idea = <<" ">>
    /\ market_info # <<>>
    /\ Len(chat_history) = 2

\* C3: when the agent invocation of an activation succeeds, the history
\* grows by exactly two entries at its end, (human, request text sent to the
\* agent) then (assistant, output text of the agent), and the earlier
\* entries keep their position and content.
C3_SuccessAppendsTurn ==
    [][ InvocationSucceededStep =>
          /\ Len(chat_history') = Len(pre_history) + 2
          /\ SubSeq(chat_history', 1, Len(pre_history)) = pre_history
          /\ chat_history'[Len(pre_history) + 1]
               = <<"human", Last(invocations).input>>
          /\ chat_history'[Len(pre_history) + 2]
               = <<"assistant", response.output>>
      ]_vars

\* the second turn of a session has been appended after the first
C3_Witness ==
    /\ pc = "idle"
    /\ Len(chat_history) = 4
    /\ chat_history[3][1] = "human"
    /\ chat_history[4][1] = "assistant"
    /\ Shows("markdown")

\* what a later invocation is passed, given the one before it
SeesAccumulated(a, b) ==
    \/ b.chat_history = a.chat_history
    \/ /\ Len(b.chat_history) = Len(a.chat_history) + 2
       /\ IsPrefix(a.chat_history, b.chat_history)
       /\ b.chat_history[Len(a.chat_history) + 1] = <<"human", a.input>>
       /\ b.chat_history[Len(a.chat_history) + 2][1] = "assistant"

\* C4: every activation with valid fields produces one more agent
\* invocation, also when the same text is submitted again, and each
\* invocation is passed the history accumulated so far, so that it sees the
\* human entry and the assistant result of the turns before it.
C4_EachActivationInvokesWithHistory ==
    /\ [](\A n \in 1..Len(invocations) :
            /\ n = 1 => invocations[n].chat_history = <<>>
            /\ n > 1 => SeesAccumulated(invocations[n - 1], invocations[n])
            /\ n = Len(invocations) =>
                 IsPrefix(invocations[n].chat_history, chat_history)
            /\ (n = Len(invocations) /\ pc = "invoking") =>
                 invocations[n].chat_history = chat_history)
    /\ [][ ValidActivation =>
             /\ Len(invocations') = Len(invocations) + 1
             /\ Last(invocations').chat_history = chat_history
             /\ Last(invocations').input
                  = format_user_input(idea', target_users', market_info')
         ]_vars

\* the same text was submitted twice; the second invocation sees the first turn
C4_Witness ==
    /\ Len(invocations) = 2
    /\ invocations[1].input = invocations[2].input
    /\ Len(invocations[2].chat_history) = 2
    /\ invocations[2].chat_history[1] = <<"human", invocations[1].input>>

ToolCalls == { n \in 1..Len(scratchpad) : scratchpad[n].tool # "_Exception" }
Recoveries == { n \in 1..Len(scratchpad) : scratchpad[n].tool = "_Exception" }

\* C5: for one request the loop performs at most 3 tool-call iterations;
\* parse-error recoveries count against the same cap of 3.
C5_IterationCap ==
    /\ iterations <= 3
    /\ Cardinality(ToolCalls) + Cardinality(Recoveries) <= 3
    /\ (agent_state \in {"tool-call-pending", "parse-error-recovered"})
         => iterations < 3

\* the cap was reached by tool calls and a parse-error recovery together
C5_Witness ==
    /\ agent_state = "iteration-limit-reached"
    /\ Cardinality(ToolCalls) = 2
    /\ Cardinality(Recoveries) = 1

NonTerminal ==
    {"awaiting-decision", "tool-call-pending", "tool-result-received",
     "parse-error-recovered"}

\* C6: every agent invocation ends: the loop leaves its non-terminal states
\* for final-answer-produced, iteration-limit-reached or a raised exception,
\* and the run of main() ends with the result or the caught error displayed.
C6_InvocationEnds ==
    /\ (agent_state \in NonTerminal)
         ~> (agent_state \in {"final-answer-produced",
                              "iteration-limit-reached", "raised"})
    /\ (pc = "invoking")
         ~> (pc = "idle" /\ (Shows("subheader") \/ Shows("error")))

\* an invocation that raised after two iterations has ended with the error shown
C6_Witness ==
    /\ pc = "idle"
    /\ Len(invocations) = 1
    /\ ErrorDisplayed
    /\ chat_history = <<>>

\* C7: one agent instance and one history list per session: the agent is
\* constructed only when the session has none, every invocation uses that
\* instance, and the history list is never replaced or reset.
C7_SessionSingleton ==
    /\ [](/\ agents_created <= 1
          /\ lists_created <= 1
          /\ (agent_executor = 0) <=> (agents_created = 0)
          /\ has_history <=> (lists_created = 1)
          /\ \A n \in 1..Len(invocations) :
                 invocations[n].executor = agent_executor /\ agent_executor # 0)
    /\ [][ /\ IsPrefix(chat_history, chat_history')
           /\ has_history => has_history'
           /\ agent_executor # 0 => agent_executor' = agent_executor
         ]_vars

\* two invocations and two appended turns with the one instance and list
C7_Witness ==
    /\ pc = "idle"
    /\ Len(invocations) = 2
    /\ Len(chat_history) = 4
    /\ agents_created = 1
    /\ lists_created = 1

\* C8: a run in which either credential is absent or empty halts with the
\* configuration error before the form is rendered: no agent is constructed,
\* no history list is created and no invocation occurs.
C8_MissingCredentialHalts ==
    /\ []((CredentialAbsentOrEmpty(env.GROQ_API_KEY)
            \/ CredentialAbsentOrEmpty(env.TAVILY_API_KEY))
          => /\ pc = "idle"
             /\ ~Shows("form")
             /\ agent_executor = 0 /\ agents_created = 0
             /\ ~has_history /\ lists_created = 0
             /\ invocations = <<>>)
    /\ [][ ( /\ pc = "idle"
             /\ CredentialAbsentOrEmpty(env'.GROQ_API_KEY)
                  \/ CredentialAbsentOrEmpty(env'.TAVILY_API_KEY) )
           => /\ ui' = <<ConfigErrorElement>>
              /\ pc' = "idle"
              /\ UNCHANGED <<agent_executor, agents_created, has_history,
                             chat_history, lists_created, invocations>>
         ]_vars

\* the configuration error is shown with one credential set and the other empty
C8_Witness ==
    /\ ui = <<ConfigErrorElement>>
    /\ env.GROQ_API_KEY = "key"
    /\ env.TAVILY_API_KEY = ""

IsCaseVariant(label, key) ==
    /\ Len(label) = Len(key)
    /\ \A n \in 1..Len(key) : label[n] \in {key[n], upper_char(key[n])}

\* the expansion the claim gives for a label
ExpectedExpansion(label) ==
    IF IsCaseVariant(label, students)
    THEN <<"College students, High school students, Exam aspirants, Skill learners">>
    ELSE IF IsCaseVariant(label, business_owners)
    THEN <<"Small business owners, Entrepreneurs, Startup founders">>
    ELSE IF IsCaseVariant(label, developers)
    THEN <<"Software developers, Programmers, Data scientists">>
    ELSE <<"Expanded users for '">> \o label
             \o <<"' could include a broader audience.">>

\* C9: the expander returns, for "students" in any letter case, exactly the
\* fixed string (likewise for the other keys, matched without trimming), for
\* any other label the fallback template around the unchanged label, and it
\* changes nothing of the session.
C9_ExpanderResult ==
    /\ \A n \in 1..Len(scratchpad) :
           scratchpad[n].tool = "expand_target_users"
             => scratchpad[n].observation = ExpectedExpansion(scratchpad[n].arg)
    /\ chat_history = <<>>
    /\ agent_executor = 1
    /\ Len(invocations) = 1

\* a mixed-case "students" and its fixed expansion
C9_Witness ==
    /\ scratchpad # <<>>
    /\ scratchpad[1].arg = <<"S", "t", "U", "d", "E", "n", "T", "s">>
    /\ scratchpad[1].observation =
         <<"College students, High school students, Exam aspirants, Skill learners">>

\* C10: whenever an activation ends with the error message displayed, the
\* history equals its value before the activation, wherever in the guarded
\* block the exception was raised.
C10_ErrorImpliesHistoryUnchanged ==
    (pc = "idle" /\ ErrorDisplayed) => chat_history = pre_history

====
